---- MODULE Spec2Model ----
(***************************************************************************)
(* Adapter mixins of the BERT architecture                                 *)
(* (src/adapter_transformers/mixins/bert.py).                              *)
(*                                                                         *)
(* The state is the attributes the mixins read and write on the modules of *)
(* one model: per encoder layer an attention block (attention.self), an    *)
(* optional cross-attention block (crossattention.self), the self-output   *)
(* containers (attention.output, crossattention.output), the output        *)
(* container (output), the intermediate dense layer, and the forward       *)
(* pre-hooks of the layer; per model the encoder.layer collection.         *)
(* One action per init_adapters method, one for each step of the           *)
(* iter_layers generator.                                                  *)
(***************************************************************************)
EXTENDS Naturals, Sequences, FiniteSets, TLC

\* ------------------------------------------------------------------ bounds
\* Number of encoder layers of the model.
NumLayers == 2
\* Total number of init_adapters calls made by a caller outside the setup pass.
MaxCalls == 2

\* ------------------------------------------------------------------ values
\* An attribute that does not exist on the object (reading it raises
\* AttributeError).
Absent == "<absent>"
\* Python's None.
NoneVal == "<None>"
\* Configuration objects: opaque, only forwarded.
Configs == {"cfgA", "cfgB"}
\* The exception outcomes of a call.
NoError == "none"
AttributeError == "AttributeError"

LayerIds == 1 .. NumLayers
\* The two attention sub-modules a layer may own.
AttnNames == {"attention", "crossattention"}

\* Python truthiness of a value that is None or a str.
Truthy(v) == v # NoneVal /\ v # ""

\* ------------------------------------------------------------------ modules
\* Module identities: <<kind, layer id, attention sub-module>>.
AttnMod(l, w) == <<"selfattn", l, w>>
SelfOutputMod(l, w) == <<"selfoutput", l, w>>
OutputMod(l) == <<"output", l, "">>
LayerMod(l) == <<"layer", l, "">>
ModelMod == <<"model", 0, "">>

Modules ==
    {AttnMod(l, w) : l \in LayerIds, w \in AttnNames}
    \cup {SelfOutputMod(l, w) : l \in LayerIds, w \in AttnNames}
    \cup {OutputMod(l) : l \in LayerIds}
    \cup {LayerMod(l) : l \in LayerIds}
    \cup {ModelMod}

\* ------------------------------------------------------------------ linear layers
\* Input/output dimensions of the original (unwrapped) linear layers; the
\* roles get different shapes so that a swap of two projections shows.
InFeatures(role) ==
    CASE role = "query" -> 4
      [] role = "key" -> 5
      [] role = "value" -> 6
      [] role = "intermediate.dense" -> 4
      [] OTHER -> 8

OutFeatures(role) ==
    CASE role = "query" -> 4
      [] role = "key" -> 4
      [] role = "value" -> 7
      [] role = "intermediate.dense" -> 8
      [] OTHER -> 4

\* The linear layer the base model constructed for `role` of module `owner`.
\* `wraps` lists the LoRA wrappers applied on top of it, innermost first.
OrigLinear(owner, role) ==
    [ src |-> <<owner, role>>,
      in_features |-> InFeatures(role),
      out_features |-> OutFeatures(role),
      wraps |-> << >> ]

\* ------------------------------------------------------------------ collaborators
\* LoRALinear.wrap(module, location_key, config, attn_key=None): a new
\* LoRA-capable layer built from `module`, with its input/output dimensions,
\* tagged with the location and the attention role.
LoRALinearWrap(module, location, config, attn_key) ==
    [ module EXCEPT !.wraps =
        Append(@, [location |-> location, attn_key |-> attn_key, config |-> config]) ]

\* A prefix_tuning attribute that was never assigned.
NoShim == [exists |-> FALSE, key |-> NoneVal, config |-> NoneVal]
\* PrefixTuningShim(location_key, config).
PrefixTuningShim(location_key, config) ==
    [exists |-> TRUE, key |-> location_key, config |-> config]

\* The state of a generic adapter container before AdapterLayer.init_adapters.
NoContainer == [initialised |-> FALSE, location_key |-> Absent, config |-> NoneVal]
\* AdapterLayer.init_adapters(config) on a container whose location_key
\* attribute is `location_key` at the time of the call: the container is set up
\* for that location.
AdapterLayerInitAdapters(location_key, config) ==
    [initialised |-> TRUE, location_key |-> location_key, config |-> config]

\* ------------------------------------------------------------------ state
VARIABLES
    encoderLayer,        \* model.encoder.layer: the ordered collection of layers
    add_cross_attention, \* layer.add_cross_attention
    hasCross,            \* whether layer.crossattention exists
    selfAttn,            \* attention.self / crossattention.self: query, key, value,
                         \*   location_key, prefix_tuning
    selfOutput,          \* attention.output / crossattention.output: location_key,
                         \*   adapters (the generic container's state)
    output,              \* layer.output: location_key, adapters, dense
    intermediate,        \* layer.intermediate: dense
    hooks,               \* layer._forward_pre_hooks, in registration order
    modelConfig,         \* the configuration object handed to init_adapters
    inherited,           \* what the model's inherited init_adapters did
    raised,              \* the exception the last init_adapters call on a module raised
    calls,               \* the number of init_adapters calls made on a module
    gen,                 \* the generator returned by the last iter_layers() call
    pass                 \* the one-time setup pass

moduleVars ==
    << encoderLayer, add_cross_attention, hasCross, selfAttn, selfOutput, output,
       intermediate, hooks, modelConfig, inherited >>
vars == << moduleVars, raised, calls, gen, pass >>

\* The hook registered for parallel composition.
ParallelHook == "adjust_tensors_for_parallel_"

\* ------------------------------------------------------------------ construction
\* The orders the layer collection may hold its layers in.
Ascending == [i \in 1 .. NumLayers |-> i]
Descending == [i \in 1 .. NumLayers |-> NumLayers + 1 - i]
LayerOrders == {Ascending, Descending}

\* The values the location_key of an attention block may hold after
\* construction: no such attribute, None, the empty string, or a string.
AttnInitKeys == {Absent, NoneVal, "", "enc"}

\* BertSelfOutputAdaptersMixin.__init__, BertOutputAdaptersMixin.__init__: the
\* key the constructor hands to AdapterLayer.__init__.
SelfOutputKey == "mh_adapter"
OutputKey == "output_adapter"

\* How a container came to its location_key before init_adapters: by its
\* constructor, not at all (the class was mixed in without its constructor
\* running), or by an earlier assignment of another string.
ContainerOrigins == {"constructed", "mixed-in", "stale"}

NoGenerator == [created |-> FALSE, next |-> 0, yielded |-> << >>, exhausted |-> FALSE]
IdlePass == [phase |-> "idle", pos |-> 0]
NotInherited == [done |-> FALSE, config |-> NoneVal, hooksSeen |-> [l \in LayerIds |-> 0]]

Init ==
    /\ encoderLayer \in LayerOrders
    /\ modelConfig \in Configs
    \* the flag comes from the model's configuration, the same for every layer
    /\ \E flag \in BOOLEAN : add_cross_attention = [l \in LayerIds |-> flag]
    \* whether the layers were built with a crossattention sub-module
    /\ \E built \in BOOLEAN : hasCross = [l \in LayerIds |-> built]
    /\ \E k \in AttnInitKeys :
         selfAttn = [l \in LayerIds, w \in AttnNames |->
                       [ query |-> OrigLinear(AttnMod(l, w), "query"),
                         key |-> OrigLinear(AttnMod(l, w), "key"),
                         value |-> OrigLinear(AttnMod(l, w), "value"),
                         location_key |-> k,
                         prefix_tuning |-> NoShim ]]
    /\ \E which \in ContainerOrigins :
         LET k(fixed) == CASE which = "constructed" -> fixed
                           [] which = "mixed-in" -> Absent
                           [] OTHER -> "stale"
         IN /\ selfOutput = [l \in LayerIds, w \in AttnNames |->
                               [location_key |-> k(SelfOutputKey), adapters |-> NoContainer]]
            /\ output = [l \in LayerIds |->
                           [ location_key |-> k(OutputKey),
                             adapters |-> NoContainer,
                             dense |-> OrigLinear(OutputMod(l), "output.dense") ]]
    /\ intermediate = [l \in LayerIds |->
                         [dense |-> OrigLinear(LayerMod(l), "intermediate.dense")]]
    /\ hooks = [l \in LayerIds |-> << >>]
    /\ inherited = NotInherited
    /\ raised = [m \in Modules |-> NoError]
    /\ calls = [m \in Modules |-> 0]
    /\ gen = NoGenerator
    /\ pass = IdlePass

\* ------------------------------------------------------------------ init_adapters
\* Bookkeeping of a call of init_adapters on module m that raised e.
Called(m, e) ==
    /\ raised' = [raised EXCEPT ![m] = e]
    /\ calls' = [calls EXCEPT ![m] = @ + 1]

\* Mutant of WrapProjections: key is wrapped from the query layer.
WrapProjectionsSwapped(block, config) ==
    [ block EXCEPT
        !.query = LoRALinearWrap(block.query, "selfattn", config, "q"),
        !.key = LoRALinearWrap(block.query, "selfattn", config, "k"),
        !.value = LoRALinearWrap(block.value, "selfattn", config, "v") ]

\* BertSelfAttentionAdaptersMixin.init_adapters, lines 28-30: the three
\* projections are replaced by their wrappers.
WrapProjections(block, config) ==
    [ block EXCEPT
        !.query = LoRALinearWrap(block.query, "selfattn", config, "q"),
        !.key = LoRALinearWrap(block.key, "selfattn", config, "k"),
        !.value = LoRALinearWrap(block.value, "selfattn", config, "v") ]

\* Mutant of PrefixKey: the suffix is appended whatever the key.
PrefixKeyAlways(location_key) == location_key \o "_prefix"

\* Line 32, the argument of PrefixTuningShim.
PrefixKey(location_key) ==
    IF Truthy(location_key) THEN location_key \o "_prefix" ELSE NoneVal

\* Mutant of AttachPrefixTuning: a missing location_key is read as None.
AttachPrefixTuningDefaulting(block, config) ==
    IF block.location_key = Absent
    THEN [block EXCEPT !.prefix_tuning = PrefixTuningShim(NoneVal, config)]
    ELSE [block EXCEPT !.prefix_tuning = PrefixTuningShim(PrefixKey(block.location_key), config)]

\* Mutant of AttachPrefixTuning: the composite key is stored back in location_key.
AttachPrefixTuningStoringKey(block, config) ==
    IF block.location_key = Absent
    THEN block
    ELSE [block EXCEPT !.prefix_tuning = PrefixTuningShim(PrefixKey(block.location_key), config),
                       !.location_key = PrefixKey(block.location_key)]

\* Line 32: reading self.location_key raises AttributeError when the attribute
\* does not exist, and prefix_tuning is then not assigned.
AttachPrefixTuning(block, config) ==
    IF block.location_key = Absent
    THEN block
    ELSE [block EXCEPT !.prefix_tuning = PrefixTuningShim(PrefixKey(block.location_key), config)]

SelfAttentionRaises(block) ==
    IF block.location_key = Absent THEN AttributeError ELSE NoError

\* BertSelfAttentionAdaptersMixin.init_adapters(config) on the block `w` of layer l.
SelfAttentionInitAdapters(l, w, config) ==
    /\ w = "crossattention" => hasCross[l]
    /\ selfAttn' = [selfAttn EXCEPT
                      ![l, w] = AttachPrefixTuning(WrapProjections(@, config), config)]
    /\ Called(AttnMod(l, w), SelfAttentionRaises(selfAttn[l, w]))
    /\ UNCHANGED << encoderLayer, modelConfig, add_cross_attention, hasCross, selfOutput, output,
                    intermediate, hooks, inherited, gen >>

\* Mutant of ContainerInitAdapters: the container is initialised first, the
\* key assigned after.
ContainerInitAdaptersDelegatingFirst(container, fixed, config) ==
    LET inited == [container EXCEPT
                     !.adapters = AdapterLayerInitAdapters(container.location_key, config)]
    IN [inited EXCEPT !.location_key = fixed]

\* BertSelfOutputAdaptersMixin.init_adapters / BertOutputAdaptersMixin.init_adapters:
\* the key is assigned, then the generic container initialises itself.
ContainerInitAdapters(container, fixed, config) ==
    LET keyed == [container EXCEPT !.location_key = fixed]
    IN [keyed EXCEPT !.adapters = AdapterLayerInitAdapters(keyed.location_key, config)]

\* BertSelfOutputAdaptersMixin.init_adapters(config) on the output of block `w`.
SelfOutputInitAdapters(l, w, config) ==
    /\ w = "crossattention" => hasCross[l]
    /\ selfOutput' = [selfOutput EXCEPT
                        ![l, w] = ContainerInitAdapters(@, SelfOutputKey, config)]
    /\ Called(SelfOutputMod(l, w), NoError)
    /\ UNCHANGED << encoderLayer, modelConfig, add_cross_attention, hasCross, selfAttn, output,
                    intermediate, hooks, inherited, gen >>

\* BertOutputAdaptersMixin.init_adapters(config) on layer l's output.
OutputInitAdapters(l, config) ==
    /\ output' = [output EXCEPT ![l] = ContainerInitAdapters(@, OutputKey, config)]
    /\ Called(OutputMod(l), NoError)
    /\ UNCHANGED << encoderLayer, modelConfig, add_cross_attention, hasCross, selfAttn, selfOutput,
                    intermediate, hooks, inherited, gen >>

\* Mutant of SetLocationKeys: the cross-attention key is set whatever the flag.
SetLocationKeysUnconditional(attn, l) ==
    LET withSelf == [attn EXCEPT ![l, "attention"].location_key = "self"]
    IN IF hasCross[l]
       THEN [withSelf EXCEPT ![l, "crossattention"].location_key = "cross"]
       ELSE withSelf

\* Mutant of SetLocationKeys: the cross-attention block is looked up before
\* any key is set, so a failing call sets none.
SetLocationKeysCheckingFirst(attn, l) ==
    IF add_cross_attention[l] /\ ~hasCross[l]
    THEN attn
    ELSE LET withSelf == [attn EXCEPT ![l, "attention"].location_key = "self"]
         IN IF add_cross_attention[l]
            THEN [withSelf EXCEPT ![l, "crossattention"].location_key = "cross"]
            ELSE withSelf

\* BertLayerAdaptersMixin.init_adapters, lines 68-70: the location keys of the
\* attention blocks of layer l, given the blocks `attn` of all layers.
\* self.crossattention is only evaluated when the flag is set.
SetLocationKeys(attn, l) ==
    LET withSelf == [attn EXCEPT ![l, "attention"].location_key = "self"]
    IN IF add_cross_attention[l] /\ hasCross[l]
       THEN [withSelf EXCEPT ![l, "crossattention"].location_key = "cross"]
       ELSE withSelf

LayerRaises(l) ==
    IF add_cross_attention[l] /\ ~hasCross[l] THEN AttributeError ELSE NoError

\* BertLayerAdaptersMixin.init_adapters(config) on layer l.
LayerInitAdapters(l, config) ==
    /\ intermediate' = [intermediate EXCEPT
                          ![l].dense = LoRALinearWrap(@, "intermediate", config, NoneVal)]
    /\ output' = [output EXCEPT
                    ![l].dense = LoRALinearWrap(@, "output", config, NoneVal)]
    /\ selfAttn' = SetLocationKeys(selfAttn, l)
    /\ Called(LayerMod(l), LayerRaises(l))
    /\ UNCHANGED << encoderLayer, modelConfig, add_cross_attention, hasCross, selfOutput, hooks,
                    inherited, gen >>

\* ------------------------------------------------------------------ the model mixin
\* Mutant of Enumerate: the indices start at 1.
EnumerateFromOne(seq) == [i \in 1 .. Len(seq) |-> <<i, seq[i]>>]

\* Python's enumerate over a sequence: the pairs (index, element), from index 0.
Enumerate(seq) == [i \in 1 .. Len(seq) |-> <<i - 1, seq[i]>>]

\* BertModelAdaptersMixin.iter_layers, run to its end: everything it yields.
IterLayers == Enumerate(encoderLayer)

\* Mutant of SetLayerHookForParallel: a layer that has the hook keeps it as it is.
SetLayerHookOnce(h, layer) ==
    IF Len(h[layer]) > 0 THEN h ELSE [h EXCEPT ![layer] = Append(@, ParallelHook)]

\* BertModelAdaptersMixin._set_layer_hook_for_parallel(layer):
\* layer.register_forward_pre_hook(hook) adds one hook to the layer.
SetLayerHookForParallel(h, layer) == [h EXCEPT ![layer] = Append(@, ParallelHook)]

\* Mutant of SetHooks: the first layer of the iteration is skipped.
RECURSIVE SetHooksSkippingFirst(_, _)
SetHooksSkippingFirst(h, pairs) ==
    IF Len(pairs) <= 1 THEN h
    ELSE SetHooksSkippingFirst(
             [h EXCEPT ![pairs[Len(pairs)][2]] = Append(@, ParallelHook)],
             SubSeq(pairs, 1, Len(pairs) - 1))

\* Lines 80-81: the loop over iter_layers().
RECURSIVE SetHooks(_, _)
SetHooks(h, pairs) ==
    IF pairs = << >> THEN h
    ELSE SetHooks(SetLayerHookForParallel(h, Head(pairs)[2]), Tail(pairs))

\* Line 77, super().init_adapters(config): the inherited initialisation of the
\* embedding, invertible and base-model mixins. It runs with the hooks the
\* layers carry at that time.
InheritedInitAdapters(h, config) ==
    [done |-> TRUE, config |-> config, hooksSeen |-> [l \in LayerIds |-> Len(h[l])]]

\* BertModelAdaptersMixin.init_adapters(config).
ModelInitAdapters(config) ==
    /\ inherited' = InheritedInitAdapters(hooks, config)
    /\ hooks' = SetHooks(hooks, IterLayers)
    /\ Called(ModelMod, NoError)
    /\ UNCHANGED << encoderLayer, modelConfig, add_cross_attention, hasCross, selfAttn, selfOutput,
                    output, intermediate, gen >>

\* A call of iter_layers(): a new generator, positioned at the start.
NewGenerator == [created |-> TRUE, next |-> 0, yielded |-> << >>, exhausted |-> FALSE]

\* One next() on a generator over `layers`: the next pair of the enumeration,
\* or the end of the iteration.
Advance(g, layers) ==
    IF g.next < Len(layers)
    THEN [g EXCEPT !.yielded = Append(@, Enumerate(layers)[g.next + 1]), !.next = @ + 1]
    ELSE [g EXCEPT !.exhausted = TRUE]

IterLayersCall ==
    /\ gen' = NewGenerator
    /\ UNCHANGED << moduleVars, raised, calls, pass >>

GeneratorNext ==
    /\ gen.created
    /\ ~gen.exhausted
    /\ gen' = Advance(gen, encoderLayer)
    /\ UNCHANGED << moduleVars, raised, calls, pass >>

\* ------------------------------------------------------------------ callers
RECURSIVE SumCalls(_)
SumCalls(ms) ==
    IF ms = {} THEN 0
    ELSE LET m == CHOOSE x \in ms : TRUE IN calls[m] + SumCalls(ms \ {m})

\* A caller may still call init_adapters.
MayCall == SumCalls(Modules) < MaxCalls

CallSelfAttention ==
    /\ MayCall
    /\ \E l \in LayerIds, w \in AttnNames : SelfAttentionInitAdapters(l, w, modelConfig)
    /\ UNCHANGED pass

CallSelfOutput ==
    /\ MayCall
    /\ \E l \in LayerIds, w \in AttnNames : SelfOutputInitAdapters(l, w, modelConfig)
    /\ UNCHANGED pass

CallOutput ==
    /\ MayCall
    /\ \E l \in LayerIds : OutputInitAdapters(l, modelConfig)
    /\ UNCHANGED pass

CallLayer ==
    /\ MayCall
    /\ \E l \in LayerIds : LayerInitAdapters(l, modelConfig)
    /\ UNCHANGED pass

CallModel ==
    /\ MayCall
    /\ ModelInitAdapters(modelConfig)
    /\ UNCHANGED pass

\* Any caller, any order: init_adapters on any module.
Next ==
    \/ CallSelfAttention
    \/ CallSelfOutput
    \/ CallOutput
    \/ CallLayer
    \/ CallModel

Spec == Init /\ [][Next]_vars

\* The model mixin's callers: init_adapters and iter_layers at any time.
NextIter ==
    \/ CallModel
    \/ IterLayersCall
    \/ GeneratorNext

IterSpec == Init /\ [][NextIter]_vars

\* ------------------------------------------------------------------ the setup pass
\* The modules of layer l in the order the pass visits them: attention,
\* self-output, output, layer.
LayerModules(l) ==
    << AttnMod(l, "attention") >>
    \o (IF hasCross[l] THEN << AttnMod(l, "crossattention") >> ELSE << >>)
    \o << SelfOutputMod(l, "attention") >>
    \o (IF hasCross[l] THEN << SelfOutputMod(l, "crossattention") >> ELSE << >>)
    \o << OutputMod(l), LayerMod(l) >>

RECURSIVE ModulesOf(_)
ModulesOf(layers) ==
    IF layers = << >> THEN << >>
    ELSE LayerModules(Head(layers)) \o ModulesOf(Tail(layers))

\* The one-time configuration pass: every layer's modules, then the model.
PassOrder == ModulesOf(encoderLayer) \o << ModelMod >>

\* The module the pass visits next.
Current == PassOrder[pass.pos + 1]

\* The pass after init_adapters on module m: an exception ends it.
Visited(m) ==
    /\ pass' = IF raised'[m] # NoError THEN [pass EXCEPT !.phase = "aborted"]
               ELSE IF pass.pos + 1 = Len(PassOrder)
                    THEN [phase |-> "done", pos |-> pass.pos + 1]
                    ELSE [pass EXCEPT !.pos = @ + 1]

BeginPass ==
    /\ pass.phase = "idle"
    /\ pass' = [phase |-> "running", pos |-> 0]
    /\ UNCHANGED << moduleVars, raised, calls, gen >>

PassSelfAttention ==
    /\ pass.phase = "running"
    /\ Current[1] = "selfattn"
    /\ SelfAttentionInitAdapters(Current[2], Current[3], modelConfig)
    /\ Visited(Current)

PassSelfOutput ==
    /\ pass.phase = "running"
    /\ Current[1] = "selfoutput"
    /\ SelfOutputInitAdapters(Current[2], Current[3], modelConfig)
    /\ Visited(Current)

PassOutput ==
    /\ pass.phase = "running"
    /\ Current[1] = "output"
    /\ OutputInitAdapters(Current[2], modelConfig)
    /\ Visited(Current)

PassLayer ==
    /\ pass.phase = "running"
    /\ Current[1] = "layer"
    /\ LayerInitAdapters(Current[2], modelConfig)
    /\ Visited(Current)

PassModel ==
    /\ pass.phase = "running"
    /\ Current[1] = "model"
    /\ ModelInitAdapters(modelConfig)
    /\ Visited(Current)

NextPass ==
    \/ BeginPass
    \/ PassSelfAttention
    \/ PassSelfOutput
    \/ PassOutput
    \/ PassLayer
    \/ PassModel

PassSpec == Init /\ [][NextPass]_vars

\* ------------------------------------------------------------------ claims
\* The attention blocks, self-output containers that exist in the model.
Blocks == {<<l, w>> \in LayerIds \X AttnNames : w = "crossattention" => hasCross[l]}

\* The original layer of projection `role` of block <<l, w>>.
Original(l, w, role) == OrigLinear(AttnMod(l, w), role)

\* `layer` is the result of wrapping `orig` n times, each time at `location`
\* with attention role `attn_key`: the original's identity and dimensions, n
\* wrappers on top, none of another role.
WrappedFrom(layer, orig, n, location, attn_key) ==
    /\ layer.src = orig.src
    /\ layer.in_features = orig.in_features
    /\ layer.out_features = orig.out_features
    /\ Len(layer.wraps) = n
    /\ \A i \in 1 .. n :
         /\ layer.wraps[i].location = location
         /\ layer.wraps[i].attn_key = attn_key
         /\ layer.wraps[i].config = modelConfig

\* init_adapters was called on module m in this step.
CallOn(m) == calls'[m] = calls[m] + 1

\* C2: after init_adapters on a self-attention block, query, key and value are
\* no longer the original layers but the wrappers of those same layers (query of
\* the old query with role "q", key of the old key with role "k", value of the
\* old value with role "v", all at "selfattn"), with the original dimensions
\* and no two projections swapped.
C2_ProjectionsWrapped ==
    \A b \in Blocks :
        LET l == b[1]
            w == b[2]
            blk == selfAttn[l, w]
            n == calls[AttnMod(l, w)]
        IN n >= 1 =>
             /\ blk.query # Original(l, w, "query")
             /\ blk.key # Original(l, w, "key")
             /\ blk.value # Original(l, w, "value")
             /\ WrappedFrom(blk.query, Original(l, w, "query"), n, "selfattn", "q")
             /\ WrappedFrom(blk.key, Original(l, w, "key"), n, "selfattn", "k")
             /\ WrappedFrom(blk.value, Original(l, w, "value"), n, "selfattn", "v")

\* C2 witness: a block whose init_adapters ran once holds the one-level wrappers.
C2_Witness ==
    \E b \in Blocks :
        /\ calls[AttnMod(b[1], b[2])] = 1
        /\ selfAttn[b].query =
             LoRALinearWrap(Original(b[1], b[2], "query"), "selfattn", modelConfig, "q")
        /\ selfAttn[b].value =
             LoRALinearWrap(Original(b[1], b[2], "value"), "selfattn", modelConfig, "v")

\* C3: a call of init_adapters on a self-attention block whose location_key
\* is truthy leaves prefix_tuning existing, non-null, built with the key
\* location_key + "_prefix"; when location_key is present but falsy (None or
\* the empty string) the shim is built with no key (None).
C3_PrefixTuningKey ==
    [][ \A b \in Blocks :
          LET lk == selfAttn[b].location_key
              shim == selfAttn'[b].prefix_tuning
          IN CallOn(AttnMod(b[1], b[2])) /\ lk # Absent =>
               /\ shim.exists
               /\ shim.config = modelConfig
               /\ lk \notin {NoneVal, ""} => shim.key = lk \o "_prefix"
               /\ lk \in {NoneVal, ""} => shim.key = NoneVal
      ]_vars

\* C3 witness: a block initialised after its layer set its key carries the
\* composite key.
C3_Witness ==
    \E b \in Blocks :
        /\ calls[AttnMod(b[1], b[2])] = 1
        /\ selfAttn[b].location_key = "self"
        /\ selfAttn[b].prefix_tuning.exists
        /\ selfAttn[b].prefix_tuning.key = "self_prefix"

\* C4: after init_adapters on a self-output or output container the location
\* key is the fixed literal ("mh_adapter", "output_adapter"), for every
\* configuration and whatever the key was before, and the generic container
\* was initialised with that key already assigned.
C4_FixedKeyBeforeDelegation ==
    /\ \A b \in Blocks :
         calls[SelfOutputMod(b[1], b[2])] >= 1 =>
           /\ selfOutput[b].location_key = "mh_adapter"
           /\ selfOutput[b].adapters.initialised
           /\ selfOutput[b].adapters.location_key = "mh_adapter"
           /\ selfOutput[b].adapters.config = modelConfig
    /\ \A l \in LayerIds :
         calls[OutputMod(l)] >= 1 =>
           /\ output[l].location_key = "output_adapter"
           /\ output[l].adapters.initialised
           /\ output[l].adapters.location_key = "output_adapter"
           /\ output[l].adapters.config = modelConfig

\* C4 witness: both kinds of container initialised, in a model whose
\* containers did not hold the literal before.
C4_Witness ==
    /\ \E l \in LayerIds :
         /\ calls[OutputMod(l)] = 1
         /\ output[l].adapters.location_key = "output_adapter"
         /\ \E k \in LayerIds : k # l /\ output[k].location_key \in {Absent, "stale"}
    /\ \E b \in Blocks :
         /\ calls[SelfOutputMod(b[1], b[2])] = 1
         /\ selfOutput[b].adapters.location_key = "mh_adapter"

\* C5: a call of init_adapters on a layer sets the self-attention block's key
\* to "self" whatever the flag; with add_cross_attention true it sets the
\* cross-attention block's key to "cross"; with the flag false it does not
\* write the cross-attention block at all; so the cross-attention key is
\* "cross" exactly when the flag is true.
C5_CrossKeyIffFlag ==
    [][ \A l \in LayerIds :
          CallOn(LayerMod(l)) =>
            /\ selfAttn'[l, "attention"].location_key = "self"
            /\ hasCross[l] =>
                 /\ (selfAttn'[l, "crossattention"].location_key = "cross")
                      <=> add_cross_attention[l]
                 /\ ~add_cross_attention[l] =>
                      selfAttn'[l, "crossattention"] = selfAttn[l, "crossattention"]
      ]_vars

\* C5 witness: a layer with a cross-attention block and the flag set, initialised.
C5_Witness ==
    \E l \in LayerIds :
        /\ calls[LayerMod(l)] = 1
        /\ hasCross[l]
        /\ add_cross_attention[l]
        /\ selfAttn[l, "attention"].location_key = "self"
        /\ selfAttn[l, "crossattention"].location_key = "cross"

\* The other case of C5: flag false, cross-attention block present, its key
\* as constructed.
C5_WitnessUnset ==
    \E l \in LayerIds :
        /\ calls[LayerMod(l)] = 1
        /\ hasCross[l]
        /\ ~add_cross_attention[l]
        /\ selfAttn[l, "crossattention"].location_key \in AttnInitKeys

\* C6: a generator of iter_layers() yields one pair per element of
\* encoder.layer, indices 0..n-1 ascending, pair i holding the i-th layer; a
\* new call, whatever was consumed before and whether init_adapters ran,
\* yields that sequence from its start.
C6_IterLayersOrder ==
    /\ Len(gen.yielded) = gen.next
    /\ gen.next <= Len(encoderLayer)
    /\ \A i \in 1 .. Len(gen.yielded) : gen.yielded[i] = <<i - 1, encoderLayer[i]>>
    /\ gen.exhausted => Len(gen.yielded) = Len(encoderLayer)
    /\ ~gen.created => gen.yielded = << >>

\* C6 witness: a generator consumed to its end after init_adapters, over a
\* collection whose first layer is not layer 1.
C6_Witness ==
    /\ calls[ModelMod] >= 1
    /\ gen.exhausted
    /\ Len(gen.yielded) = NumLayers
    /\ encoderLayer = Descending
    /\ gen.yielded[1] = <<0, NumLayers>>

\* C7: after the model's init_adapters completed, every layer of iter_layers()
\* carries exactly one alignment hook, none twice and no layer skipped, and
\* the inherited init_adapters ran before any of them was registered: a call
\* adds one hook to each layer of the collection, after the inherited
\* initialisation, so a model initialised once has one hook on every layer.
C7_OneHookPerLayer ==
    /\ [](calls[ModelMod] = 1 =>
            /\ \A i \in 1 .. Len(encoderLayer) :
                 hooks[encoderLayer[i]] = << ParallelHook >>
            /\ inherited.done
            /\ \A l \in LayerIds : inherited.hooksSeen[l] = 0)
    /\ [][ CallOn(ModelMod) =>
             /\ \A i \in 1 .. Len(encoderLayer) :
                  hooks'[encoderLayer[i]] = Append(hooks[encoderLayer[i]], ParallelHook)
             /\ inherited'.done
             /\ \A l \in LayerIds : inherited'.hooksSeen[l] = Len(hooks[l])
         ]_vars

\* C7 witness: the model initialised once, one hook on every layer.
C7_Witness ==
    /\ calls[ModelMod] = 1
    /\ \A l \in LayerIds : Len(hooks[l]) = 1
    /\ inherited.done

\* C8: initialisation is not idempotent. After k calls of the model's
\* init_adapters every layer carries k alignment hooks and no call removes
\* one; after k calls on a self-attention block each projection is the k-fold
\* wrapper of the original, the attribute no longer holding the previous
\* wrapper.
C8_NotIdempotent ==
    /\ [](/\ \A l \in LayerIds :
               /\ Len(hooks[l]) = calls[ModelMod]
               /\ \A i \in 1 .. Len(hooks[l]) : hooks[l][i] = ParallelHook
          /\ \A b \in Blocks :
               /\ Len(selfAttn[b].query.wraps) = calls[AttnMod(b[1], b[2])]
               /\ Len(selfAttn[b].key.wraps) = calls[AttnMod(b[1], b[2])]
               /\ Len(selfAttn[b].value.wraps) = calls[AttnMod(b[1], b[2])])
    /\ [][ /\ \A l \in LayerIds :
                /\ Len(hooks'[l]) >= Len(hooks[l])
                /\ SubSeq(hooks'[l], 1, Len(hooks[l])) = hooks[l]
           /\ \A b \in Blocks :
                CallOn(AttnMod(b[1], b[2])) =>
                  /\ selfAttn'[b].query # selfAttn[b].query
                  /\ selfAttn'[b].query =
                       LoRALinearWrap(selfAttn[b].query, "selfattn", modelConfig, "q")
                  /\ selfAttn'[b].key =
                       LoRALinearWrap(selfAttn[b].key, "selfattn", modelConfig, "k")
                  /\ selfAttn'[b].value =
                       LoRALinearWrap(selfAttn[b].value, "selfattn", modelConfig, "v")
         ]_vars

\* C8 witness: the model initialised twice, two hooks on every layer.
C8_Witness ==
    /\ calls[ModelMod] = 2
    /\ \A l \in LayerIds : hooks[l] = << ParallelHook, ParallelHook >>

\* A block initialised twice: a wrapper of a wrapper.
C8_WitnessRewrap ==
    \E b \in Blocks :
        /\ calls[AttnMod(b[1], b[2])] = 2
        /\ Len(selfAttn[b].query.wraps) = 2

\* C9: each init_adapters changes only its own attributes. The self-attention
\* mixin writes query, key, value and prefix_tuning of its block, never
\* location_key; the layer mixin writes intermediate.dense, output.dense and
\* the location keys of its attention blocks, never the projections, the
\* shims or the hooks; the model mixin registers layer hooks (and runs the
\* inherited initialisation) and leaves the membership and order of
\* encoder.layer as they were.
C9_Frame ==
    [][ /\ \A b \in Blocks :
             CallOn(AttnMod(b[1], b[2])) =>
               /\ selfAttn'[b].location_key = selfAttn[b].location_key
               /\ \A o \in (LayerIds \X AttnNames) \ {b} : selfAttn'[o] = selfAttn[o]
               /\ UNCHANGED << encoderLayer, add_cross_attention, hasCross, selfOutput,
                               output, intermediate, hooks, inherited, modelConfig >>
        /\ \A l \in LayerIds :
             CallOn(LayerMod(l)) =>
               /\ \A o \in LayerIds \X AttnNames :
                    /\ selfAttn'[o].query = selfAttn[o].query
                    /\ selfAttn'[o].key = selfAttn[o].key
                    /\ selfAttn'[o].value = selfAttn[o].value
                    /\ selfAttn'[o].prefix_tuning = selfAttn[o].prefix_tuning
                    /\ o[1] # l => selfAttn'[o] = selfAttn[o]
               /\ \A k \in LayerIds \ {l} :
                    intermediate'[k] = intermediate[k] /\ output'[k] = output[k]
               /\ output'[l].location_key = output[l].location_key
               /\ output'[l].adapters = output[l].adapters
               /\ UNCHANGED << encoderLayer, add_cross_attention, hasCross, selfOutput,
                               hooks, inherited, modelConfig >>
        /\ CallOn(ModelMod) =>
             UNCHANGED << encoderLayer, add_cross_attention, hasCross, selfAttn,
                          selfOutput, output, intermediate, modelConfig >>
      ]_vars

\* C9 witness: a block's init_adapters and another layer's init_adapters have
\* run; the block kept its key, the layer got no hook.
C9_Witness ==
    \E l \in LayerIds :
        /\ calls[AttnMod(l, "attention")] = 1
        /\ selfAttn[l, "attention"].location_key = "enc"
        /\ selfAttn[l, "attention"].prefix_tuning.key = "enc_prefix"
        /\ \E k \in LayerIds : calls[LayerMod(k)] = 1 /\ k # l /\ hooks[k] = << >>

\* C10: a failing init_adapters rolls nothing back. A layer with
\* add_cross_attention true and no crossattention raises at the attribute
\* access, after intermediate.dense and output.dense were replaced by their
\* wrappers and the self-attention key was set to "self"; a self-attention
\* block without a location_key attribute raises after query, key and value
\* were replaced, and prefix_tuning is not assigned.
C10_NoRollback ==
    [][ /\ \A l \in LayerIds :
             CallOn(LayerMod(l)) =>
               /\ (raised'[LayerMod(l)] = AttributeError)
                    <=> (add_cross_attention[l] /\ ~hasCross[l])
               /\ intermediate'[l].dense =
                    LoRALinearWrap(intermediate[l].dense, "intermediate", modelConfig, NoneVal)
               /\ output'[l].dense =
                    LoRALinearWrap(output[l].dense, "output", modelConfig, NoneVal)
               /\ selfAttn'[l, "attention"].location_key = "self"
        /\ \A b \in Blocks :
             CallOn(AttnMod(b[1], b[2])) =>
               /\ (raised'[AttnMod(b[1], b[2])] = AttributeError)
                    <=> (selfAttn[b].location_key = Absent)
               /\ Len(selfAttn'[b].query.wraps) = Len(selfAttn[b].query.wraps) + 1
               /\ Len(selfAttn'[b].key.wraps) = Len(selfAttn[b].key.wraps) + 1
               /\ Len(selfAttn'[b].value.wraps) = Len(selfAttn[b].value.wraps) + 1
               /\ selfAttn[b].location_key = Absent =>
                    selfAttn'[b].prefix_tuning = selfAttn[b].prefix_tuning
      ]_vars

\* C10 witness: a layer that failed on its missing crossattention, partially
\* initialised.
C10_Witness ==
    \E l \in LayerIds :
        /\ raised[LayerMod(l)] = AttributeError
        /\ add_cross_attention[l] /\ ~hasCross[l]
        /\ Len(intermediate[l].dense.wraps) = 1
        /\ Len(output[l].dense.wraps) = 1
        /\ selfAttn[l, "attention"].location_key = "self"

\* A block that failed on its missing location_key, its projections wrapped
\* and no shim.
C10_WitnessBlock ==
    \E b \in Blocks :
        /\ raised[AttnMod(b[1], b[2])] = AttributeError
        /\ Len(selfAttn[b].query.wraps) = 1
        /\ ~selfAttn[b].prefix_tuning.exists

\* The key a self-attention block was constructed with.
Constructed(lk) == lk \in AttnInitKeys

====
